---- MODULE Spec2Model ----
\* Model of the POST /ocr request pipeline of src/server.js:
\* multer upload -> Tesseract worker -> recognition -> early cleanup ->
\* optional Gemini refinement raced against a timer -> response, with the
\* catch block's cleanup.  Several requests run concurrently on one event
\* loop; each action is one synchronous run of a callback between two awaits.
EXTENDS Integers, Sequences, FiniteSets, TLC

\* ---------------------------------------------------------------- bounds
MaxClock == 1
MaxPad == 1
MaxExtra == 1

\* ------------------------------------------------------ program constants
\* rawText.length < 10 (server.js:142)
ShortTextLimit == 10

\* two requests in flight at once: every interleaving of a request with another
Requests == {1, 2}

\* ------------------------------------------------------------------ text
\* Characters: "a" is a printing character, " " and "\n" are whitespace.
IsSpace(c) == c \in {" ", "\n"}

RECURSIVE TrimStart(_)
TrimStart(s) ==
  IF s = <<>> THEN <<>>
  ELSE IF IsSpace(Head(s)) THEN TrimStart(Tail(s)) ELSE s

RECURSIVE TrimEnd(_)
TrimEnd(s) ==
  IF s = <<>> THEN <<>>
  ELSE IF IsSpace(s[Len(s)]) THEN TrimEnd(SubSeq(s, 1, Len(s) - 1)) ELSE s

\* String.prototype.trim
Trim(s) == TrimEnd(TrimStart(s))

Pad(n) == [i \in 1..n |-> IF i % 2 = 1 THEN " " ELSE "\n"]

\* n printing characters, with one inner blank when there is room for it
Body(n) == [i \in 1..n |-> IF i = 2 /\ n >= 3 THEN " " ELSE "a"]

BodyLens ==
  {0, 1, ShortTextLimit - 1, ShortTextLimit} \cup
  {ShortTextLimit + k : k \in 1..MaxExtra}

\* result.data.text values the engine may return
OcrTexts ==
  {Pad(l) \o Body(n) \o Pad(t) : l \in 0..MaxPad, t \in 0..MaxPad, n \in BodyLens}

\* ---------------------------------------------------------------- errors
\* A thrown value: an Error with a message (a sequence of message fragments),
\* or a value that is no Error object and has no .message (Tesseract rejects
\* with plain strings).
Err(msg) == [isError |-> TRUE, message |-> msg]
NonError == [isError |-> FALSE]

MsgNoText == <<"No text detected", " in the image">>
MsgFileNotFound == <<"Uploaded file not found on server">>
MsgUnlink == <<"EPERM: operation not permitted, unlink">>
MsgUnlinkMissing == <<"ENOENT: no such file or directory, unlink">>
MsgEngine == <<"Error attempting to read image.">>
MsgEngineNoText == <<"Engine: ", "No text detected", " by the recognizer">>

\* what createWorker / recognize / terminate may reject with
EngineErrors == {Err(MsgEngine), Err(MsgEngineNoText), NonError}

\* String.prototype.includes, on message fragments
Includes(msg, needle) == \E i \in 1..Len(msg) : msg[i] = needle

\* ------------------------------------------------------------- JS values
JStr(s) == [type |-> "string", v |-> s]
JNum(n) == [type |-> "number", v |-> n]
JArr(xs) == [type |-> "array", v |-> xs]
JObj(fields) == [type |-> "object", v |-> fields]
JNull == [type |-> "null"]

\* --------------------------------------------------------- upload (multer)
\* allowedMimeTypes (server.js:38-45)
AllowedMimeTypes ==
  {"image/jpeg", "image/jpg", "image/png", "image/gif", "image/bmp", "image/webp"}

\* declared MIME types a client may send
MimeTypes == AllowedMimeTypes \cup {"text/plain", "application/pdf"}

\* fileFilter: TRUE when the file is passed on to the storage engine
FileFilter(mimetype) == mimetype \in AllowedMimeTypes

\* limits.fileSize
FileSizeLimit == 10 * 1024 * 1024

\* upload sizes in bytes
FileSizes == {1, FileSizeLimit, FileSizeLimit + 1}

\* the size limit is hit while the file is streamed to the storage engine
OverLimit(size) == size > FileSizeLimit

OriginalNames == {"soru.png", "test.png", "foto.jpg"}

\* path.extname
ExtName(originalname) ==
  CASE originalname = "soru.png" -> ".png"
    [] originalname = "test.png" -> ".png"
    [] originalname = "foto.jpg" -> ".jpg"

\* storage.filename: `${file.fieldname}-${Date.now()}${path.extname(...)}`
Filename(fieldname, t, originalname) == <<fieldname, t, ExtName(originalname)>>

\* upload.single("image"): the only field name that reaches the storage engine
FieldName == "image"

Paths == {<<FieldName, t, ExtName(n)>> : t \in 0..MaxClock, n \in OriginalNames}

\* no path (filePath = null, req.file undefined)
Null == <<>>

\* ------------------------------------------------------- staging directory
\* disk[p] is the set of requests whose upload wrote the file now stored
\* under p; the empty set means that no file is stored under p.
ExistsSync(d, p) == d[p] # {}
WriteFile(d, p, r) == [d EXCEPT ![p] = @ \cup {r}]
Unlink(d, p) == [d EXCEPT ![p] = {}]

\* --------------------------------------------------- generative model call
\* candidate texts the model may return
GeminiTexts ==
  { "{\"corrected_text\":\"K\",\"yks_topics\":[\"TYT\"]}",
    "{\"corrected_text\":\"K\",\"yks_topics\":[],\"note\":\"n\"}",
    "{\"corrected_text\":\"K\",\"yks_to",
    "",
    "null",
    "{\"answer\":42}",
    "{\"corrected_text\":5,\"yks_topics\":\"TYT\"}" }

\* geminiResponse.response.candidates, each reduced to content.parts[0].text
GeminiResponses ==
  {[candidates |-> <<>>]} \cup {[candidates |-> <<t>>] : t \in GeminiTexts}

\* JSON.parse on the candidate texts: ok = FALSE is a SyntaxError
JSONParse(text) ==
  CASE text = "{\"corrected_text\":\"K\",\"yks_topics\":[\"TYT\"]}" ->
         [ok |-> TRUE,
          value |-> JObj([corrected_text |-> JStr(<<"K">>),
                          yks_topics |-> JArr(<<JStr(<<"TYT">>)>>)])]
    [] text = "{\"corrected_text\":\"K\",\"yks_topics\":[],\"note\":\"n\"}" ->
         [ok |-> TRUE,
          value |-> JObj([corrected_text |-> JStr(<<"K">>),
                          yks_topics |-> JArr(<<>>),
                          note |-> JStr(<<"n">>)])]
    [] text = "null" -> [ok |-> TRUE, value |-> JNull]
    [] text = "{\"answer\":42}" -> [ok |-> TRUE, value |-> JObj([answer |-> JNum(42)])]
    [] text = "{\"corrected_text\":5,\"yks_topics\":\"TYT\"}" ->
         [ok |-> TRUE,
          value |-> JObj([corrected_text |-> JNum(5),
                          yks_topics |-> JStr(<<"TYT">>)])]
    [] OTHER -> [ok |-> FALSE]

NoteTooShort == <<"Text too short to categorize">>
NoteAIUnavailable == <<"AI processing unavailable - raw OCR result returned">>
NoteParseFailed == <<"Failed to process with AI, returning raw OCR result">>

\* the fallback constructors: corrected_text is the raw text, no topics
Fallback(text, note) ==
  JObj([corrected_text |-> JStr(text), yks_topics |-> JArr(<<>>),
        note |-> JStr(note)])

\* lines 216-231: extraction and JSON.parse in one try, fallback in its catch
StructuredData(geminiResponse, text) ==
  IF Len(geminiResponse.candidates) = 0
    THEN Fallback(text, NoteParseFailed)
    ELSE LET parsed == JSONParse(geminiResponse.candidates[1])
         IN IF parsed.ok THEN parsed.value ELSE Fallback(text, NoteParseFailed)

\* -------------------------------------------------------------- responses
NoResponse == [status |-> 0]

\* lines 89-92
UploadErrorResponse ==
  [status |-> 400, body |-> [error |-> "File upload failed", details |-> "uploadErr"]]

\* lines 100-103
NoFileResponse ==
  [status |-> 400, body |-> [error |-> "No image file uploaded"]]

\* lines 143-150
ShortTextResponse(text) ==
  [status |-> 200,
   body |-> [ocr_result |-> Fallback(text, NoteTooShort), raw_text |-> text]]

\* AIUnavailableResponse with a fault: the warning field is left out
AIUnavailableResponseNoWarning(text) ==
  [status |-> 200,
   body |-> [ocr_result |-> Fallback(text, NoteAIUnavailable),
             raw_text |-> text,
             success |-> TRUE]]

\* lines 203-212
AIUnavailableResponse(text) ==
  [status |-> 200,
   body |-> [ocr_result |-> Fallback(text, NoteAIUnavailable),
             raw_text |-> text,
             success |-> TRUE,
             warning |-> "AI processing failed, OCR completed successfully"]]

\* lines 234-238
FinalResponse(structuredData, text) ==
  [status |-> 200,
   body |-> [ocr_result |-> structuredData, raw_text |-> text, success |-> TRUE]]

\* StatusCode with a fault: the phrase looked for is not the phrase thrown
StatusCodeOtherPhrase(e) == IF Includes(e.message, "No text found") THEN 422 ELSE 500

\* line 261
StatusCode(e) == IF Includes(e.message, "No text detected") THEN 422 ELSE 500

\* lines 256-262
ErrorResponse(e) ==
  [status |-> StatusCode(e),
   body |-> [error |-> "OCR processing failed", details |-> e.message,
             success |-> FALSE]]

\* ------------------------------------------------------------------ state
VARIABLES
  now,          \* Date.now()
  disk,         \* the uploads directory
  pc,           \* where each request's handler is suspended
  upl,          \* what multer made of the request's upload
  staged,       \* a write to the uploads directory was made for the request
  reqFile,      \* req.file.path, Null when req.file is undefined
  filePath,     \* the handler's local filePath
  worker,       \* the handler's local worker: "null" or "handle"
  workerObj,    \* the Tesseract worker itself: "none", "running", "terminated"
  created,      \* Tesseract.createWorker calls of the request
  recognized,   \* worker.recognize calls of the request
  termCalls,    \* worker.terminate calls of the request
  misuse,       \* a call was made on a worker that had been terminated
  ocr,          \* how recognition settled: "none", "text", "threw"
  cleanup,      \* lines 136-139: "none", "terminating", "termThrew",
                \* "unlinkThrew", "released"
  catchUnlink,  \* line 251: "none", "ok", "threw"
  catchTerm,    \* line 244: "none", "ok", "threw"
  rawText,      \* the handler's local rawText
  err,          \* the value caught by the catch block
  modelCall,    \* model.generateContent: "none", "pending", "resolved", "rejected"
  timer,        \* the rejecting 30 s timer: "none", "armed", "fired"
  race,         \* what settled Promise.race: "none", "model", "timer"
  geminiResponse, \* the value the race resolved to
  resp,         \* the response sent
  sent          \* number of responses sent

vars ==
  <<now, disk, pc, upl, staged, reqFile, filePath, worker, workerObj, created,
    recognized, termCalls, misuse, ocr, cleanup, catchUnlink, catchTerm,
    rawText, err, modelCall, timer, race, geminiResponse, resp, sent>>

NoErr == [isError |-> FALSE, none |-> TRUE]
NoGemini == [candidates |-> <<>>, none |-> TRUE]

Init ==
  /\ now = 0
  /\ disk = [p \in Paths |-> {}]
  /\ pc = [r \in Requests |-> "idle"]
  /\ upl = [r \in Requests |-> "none"]
  /\ staged = [r \in Requests |-> FALSE]
  /\ reqFile = [r \in Requests |-> Null]
  /\ filePath = [r \in Requests |-> Null]
  /\ worker = [r \in Requests |-> "null"]
  /\ workerObj = [r \in Requests |-> "none"]
  /\ created = [r \in Requests |-> 0]
  /\ recognized = [r \in Requests |-> 0]
  /\ termCalls = [r \in Requests |-> 0]
  /\ misuse = [r \in Requests |-> FALSE]
  /\ ocr = [r \in Requests |-> "none"]
  /\ cleanup = [r \in Requests |-> "none"]
  /\ catchUnlink = [r \in Requests |-> "none"]
  /\ catchTerm = [r \in Requests |-> "none"]
  /\ rawText = [r \in Requests |-> <<>>]
  /\ err = [r \in Requests |-> NoErr]
  /\ modelCall = [r \in Requests |-> "none"]
  /\ timer = [r \in Requests |-> "none"]
  /\ race = [r \in Requests |-> "none"]
  /\ geminiResponse = [r \in Requests |-> NoGemini]
  /\ resp = [r \in Requests |-> NoResponse]
  /\ sent = [r \in Requests |-> 0]

\* line 129: !rawText
NoTextDetected(text) == Len(text) = 0

\* IsShort with a fault: the limit is off by one
IsShortOffByOne(text) == Len(text) < ShortTextLimit - 1

\* line 142: rawText.length < 10
IsShort(text) == Len(text) < ShortTextLimit

\* WorkerAfterTerminate with a fault: the handle is not cleared after release
WorkerKeptAfterTerminate == "handle"

\* line 137: the local worker after the early terminate resolved
WorkerAfterTerminate == "null"

\* EarlyUnlink with a fault: the staged file is not deleted before the model call
EarlyUnlinkSkipped(d, fp) == d

\* line 138: the directory after the early unlinkSync succeeded
EarlyUnlink(d, fp) == Unlink(d, fp)

\* CatchUnlink with a fault: the failure handler leaves the staged file behind
CatchUnlinkSkipped(d, fp) == d

\* line 251: the directory after the catch block's unlinkSync succeeded
CatchUnlink(d, fp) == Unlink(d, fp)

\* ------------------------------------------------------- shared fragments
\* res.json / res.status(..).json: the handler returns after it
Respond(r, response) ==
  /\ resp' = [resp EXCEPT ![r] = response]
  /\ sent' = [sent EXCEPT ![r] = @ + 1]
  /\ pc' = [pc EXCEPT ![r] = "done"]

\* worker.terminate() is called on r's worker
CallTerminate(r) ==
  /\ termCalls' = [termCalls EXCEPT ![r] = @ + 1]
  /\ misuse' = [misuse EXCEPT ![r] = @ \/ workerObj[r] = "terminated"]

\* lines 249-262, with e caught, fp the local filePath and d the directory:
\* delete the staged file if it is still there (a failing unlinkSync is
\* logged and swallowed), then answer.  A caught value without .message makes
\* line 261 throw out of the catch block: no response is sent.
CatchTail(r, e, fp, d) ==
  /\ err' = [err EXCEPT ![r] = e]
  /\ IF fp # Null /\ ExistsSync(d, fp)
       THEN \E unlinkOk \in BOOLEAN :
              /\ disk' = IF unlinkOk THEN CatchUnlink(d, fp) ELSE d
              /\ catchUnlink' =
                   [catchUnlink EXCEPT ![r] = IF unlinkOk THEN "ok" ELSE "threw"]
       ELSE /\ disk' = d
            /\ UNCHANGED catchUnlink
  /\ IF e.isError
       THEN Respond(r, ErrorResponse(e))
       ELSE /\ pc' = [pc EXCEPT ![r] = "unhandled"]
            /\ UNCHANGED <<resp, sent>>

\* lines 239-248, entered with worker w: a held worker is terminated first
\* (an await), otherwise the block runs to its end.
CatchBlock(r, e, w, fp, d) ==
  IF w # "null"
    THEN /\ CallTerminate(r)
         /\ err' = [err EXCEPT ![r] = e]
         /\ pc' = [pc EXCEPT ![r] = "catchTerminating"]
         /\ disk' = d
         /\ UNCHANGED <<resp, sent, catchUnlink>>
    ELSE /\ CatchTail(r, e, fp, d)
         /\ UNCHANGED <<termCalls, misuse>>

\* ---------------------------------------------------------------- actions
Tick ==
  /\ now < MaxClock
  /\ now' = now + 1
  /\ UNCHANGED <<disk, pc, upl, staged, reqFile, filePath, worker, workerObj,
                 created, recognized, termCalls, misuse, ocr, rawText, err,
                 modelCall, timer, race, geminiResponse, resp, sent, cleanup,
                 catchUnlink,
                 catchTerm>>

\* No file in the "image" field: multer calls back without an error and
\* without req.file; the handler answers at lines 99-104.
UploadNone(r) ==
  /\ pc[r] = "idle"
  /\ upl' = [upl EXCEPT ![r] = "nofile"]
  /\ Respond(r, NoFileResponse)
  /\ UNCHANGED <<now, disk, staged, reqFile, filePath, worker, workerObj,
                 created, recognized, termCalls, misuse, ocr, rawText, err,
                 modelCall, timer, race, geminiResponse, cleanup,
                 catchUnlink,
                 catchTerm>>

\* fileFilter refuses the MIME type (lines 46-50): multer calls back with the
\* error before the storage engine is used; the handler answers at lines 87-93.
UploadFiltered(r) ==
  /\ pc[r] = "idle"
  /\ \E m \in MimeTypes : ~FileFilter(m)
  /\ upl' = [upl EXCEPT ![r] = "badmime"]
  /\ Respond(r, UploadErrorResponse)
  /\ UNCHANGED <<now, disk, staged, reqFile, filePath, worker, workerObj,
                 created, recognized, termCalls, misuse, ocr, rawText, err,
                 modelCall, timer, race, geminiResponse, cleanup,
                 catchUnlink,
                 catchTerm>>

\* fileFilter accepts: the storage engine names the file (lines 28-33) and
\* streams the upload into it.  The size limit (line 57) is only met while
\* the bytes arrive, after the file was opened.
UploadStage(r) ==
  /\ pc[r] = "idle"
  /\ \E m \in MimeTypes, n \in OriginalNames, size \in FileSizes :
       /\ FileFilter(m)
       /\ LET p == Filename(FieldName, now, n)
          IN /\ disk' = WriteFile(disk, p, r)
             /\ reqFile' = [reqFile EXCEPT ![r] = p]
       /\ upl' = [upl EXCEPT ![r] = IF OverLimit(size) THEN "oversize" ELSE "accepted"]
  /\ staged' = [staged EXCEPT ![r] = TRUE]
  /\ pc' = [pc EXCEPT ![r] = "uploading"]
  /\ UNCHANGED <<now, filePath, worker, workerObj, created, recognized,
                 termCalls, misuse, ocr, rawText, err, modelCall, timer, race,
                 geminiResponse, resp, sent, cleanup,
                 catchUnlink,
                 catchTerm>>

\* UploadLimit with a fault: no size limit is configured, the oversize upload
\* is stored and handed to the handler like any other
UploadLimitIgnored(r) ==
  /\ pc[r] = "uploading"
  /\ upl[r] = "oversize"
  /\ filePath' = [filePath EXCEPT ![r] = reqFile[r]]
  /\ created' = [created EXCEPT ![r] = @ + 1]
  /\ pc' = [pc EXCEPT ![r] = "creating"]
  /\ UNCHANGED <<now, disk, upl, staged, reqFile, worker, workerObj,
                 recognized, termCalls, misuse, ocr, rawText, err, modelCall,
                 timer, race, geminiResponse, resp, sent, cleanup, catchUnlink,
                 catchTerm>>

\* The stream hit limits.fileSize: multer removes what the storage engine
\* wrote (a failing removal is only recorded on the error) and calls back
\* with the error; the handler answers at lines 87-93.
UploadLimit(r) ==
  /\ pc[r] = "uploading"
  /\ upl[r] = "oversize"
  /\ \E removed \in BOOLEAN :
       disk' = IF removed THEN Unlink(disk, reqFile[r]) ELSE disk
  /\ Respond(r, UploadErrorResponse)
  /\ UNCHANGED <<now, upl, staged, reqFile, filePath, worker, workerObj,
                 created, recognized, termCalls, misuse, ocr, rawText, err,
                 modelCall, timer, race, geminiResponse, cleanup,
                 catchUnlink,
                 catchTerm>>

\* The upload was stored: the handler runs lines 95-119, up to the await of
\* Tesseract.createWorker.
UploadDone(r) ==
  /\ pc[r] = "uploading"
  /\ upl[r] = "accepted"
  /\ filePath' = [filePath EXCEPT ![r] = reqFile[r]]
  /\ IF ~ExistsSync(disk, reqFile[r])
       THEN /\ CatchBlock(r, Err(MsgFileNotFound), "null", reqFile[r], disk)
            /\ UNCHANGED created
       ELSE /\ created' = [created EXCEPT ![r] = @ + 1]
            /\ pc' = [pc EXCEPT ![r] = "creating"]
            /\ UNCHANGED <<disk, termCalls, misuse, err, resp, sent, catchUnlink>>
  /\ UNCHANGED <<now, upl, staged, reqFile, worker, workerObj, recognized, ocr,
                 rawText, modelCall, timer, race, geminiResponse, cleanup,
                 catchTerm>>

\* lines 119-126: the worker is there, recognition is started
CreateWorkerResolve(r) ==
  /\ pc[r] = "creating"
  /\ worker' = [worker EXCEPT ![r] = "handle"]
  /\ workerObj' = [workerObj EXCEPT ![r] = "running"]
  /\ recognized' = [recognized EXCEPT ![r] = @ + 1]
  /\ pc' = [pc EXCEPT ![r] = "recognizing"]
  /\ UNCHANGED <<now, disk, upl, staged, reqFile, filePath, created, termCalls,
                 misuse, ocr, rawText, err, modelCall, timer, race,
                 geminiResponse, resp, sent, cleanup,
                 catchUnlink,
                 catchTerm>>

\* line 119 throws
CreateWorkerReject(r) ==
  /\ pc[r] = "creating"
  /\ \E e \in EngineErrors : CatchBlock(r, e, worker[r], filePath[r], disk)
  /\ UNCHANGED <<now, upl, staged, reqFile, filePath, worker, workerObj,
                 created, recognized, ocr, rawText, modelCall, timer, race,
                 geminiResponse, cleanup,
                 catchTerm>>

\* lines 126-136: recognition returned text; empty text is thrown as an
\* error, otherwise the early cleanup starts with the await of terminate.
RecognizeResolve(r) ==
  /\ pc[r] = "recognizing"
  /\ ocr' = [ocr EXCEPT ![r] = "text"]
  /\ \E t \in OcrTexts :
       /\ rawText' = [rawText EXCEPT ![r] = Trim(t)]
       /\ IF NoTextDetected(Trim(t))
            THEN /\ CatchBlock(r, Err(MsgNoText), worker[r], filePath[r], disk)
                 /\ UNCHANGED cleanup
            ELSE /\ CallTerminate(r)
                 /\ cleanup' = [cleanup EXCEPT ![r] = "terminating"]
                 /\ pc' = [pc EXCEPT ![r] = "terminating"]
                 /\ UNCHANGED <<disk, err, resp, sent, catchUnlink>>
  /\ UNCHANGED <<now, upl, staged, reqFile, filePath, worker, workerObj,
                 created, recognized, modelCall, timer, race, geminiResponse,
                 catchTerm>>

\* RecognizeReject with a fault: a failed recognition is tried again
RecognizeRejectRetried(r) ==
  /\ pc[r] = "recognizing"
  /\ recognized[r] < 3
  /\ recognized' = [recognized EXCEPT ![r] = @ + 1]
  /\ UNCHANGED <<now, disk, pc, upl, staged, reqFile, filePath, worker,
                 workerObj, created, termCalls, misuse, ocr, rawText, err,
                 modelCall, timer, race, geminiResponse, resp, sent, cleanup,
                 catchUnlink, catchTerm>>

\* line 126 throws
RecognizeReject(r) ==
  /\ pc[r] = "recognizing"
  /\ ocr' = [ocr EXCEPT ![r] = "threw"]
  /\ \E e \in EngineErrors : CatchBlock(r, e, worker[r], filePath[r], disk)
  /\ UNCHANGED <<now, upl, staged, reqFile, filePath, worker, workerObj,
                 created, recognized, rawText, modelCall, timer, race,
                 geminiResponse, cleanup,
                 catchTerm>>

\* lines 136-198: the early terminate resolved; the staged file is deleted,
\* short text is answered at once, longer text goes to the model, raced
\* against the timer.  A throwing unlinkSync enters the catch block.
TerminateResolve(r) ==
  /\ pc[r] = "terminating"
  /\ workerObj' = [workerObj EXCEPT ![r] = "terminated"]
  /\ worker' = [worker EXCEPT ![r] = WorkerAfterTerminate]
  /\ IF ~ExistsSync(disk, filePath[r])
       THEN /\ CatchBlock(r, Err(MsgUnlinkMissing), WorkerAfterTerminate,
                          filePath[r], disk)
            /\ cleanup' = [cleanup EXCEPT ![r] = "unlinkThrew"]
            /\ UNCHANGED <<filePath, modelCall, timer>>
       ELSE \E unlinkOk \in BOOLEAN :
              IF ~unlinkOk
                THEN /\ CatchBlock(r, Err(MsgUnlink), WorkerAfterTerminate,
                                   filePath[r], disk)
                     /\ cleanup' = [cleanup EXCEPT ![r] = "unlinkThrew"]
                     /\ UNCHANGED <<filePath, modelCall, timer>>
                ELSE /\ disk' = EarlyUnlink(disk, filePath[r])
                     /\ filePath' = [filePath EXCEPT ![r] = Null]
                     /\ cleanup' = [cleanup EXCEPT ![r] = "released"]
                     /\ UNCHANGED <<termCalls, misuse, err, catchUnlink>>
                     /\ IF IsShort(rawText[r])
                          THEN /\ Respond(r, ShortTextResponse(rawText[r]))
                               /\ UNCHANGED <<modelCall, timer>>
                          ELSE /\ modelCall' = [modelCall EXCEPT ![r] = "pending"]
                               /\ timer' = [timer EXCEPT ![r] = "armed"]
                               /\ pc' = [pc EXCEPT ![r] = "racing"]
                               /\ UNCHANGED <<resp, sent>>
  /\ UNCHANGED <<now, upl, staged, reqFile, created, recognized, ocr, rawText,
                 race, geminiResponse,
                 catchTerm>>

\* line 136 throws: the worker is still held when the catch block is entered
TerminateReject(r) ==
  /\ pc[r] = "terminating"
  /\ cleanup' = [cleanup EXCEPT ![r] = "termThrew"]
  /\ \E e \in EngineErrors : CatchBlock(r, e, worker[r], filePath[r], disk)
  /\ UNCHANGED <<now, upl, staged, reqFile, filePath, worker, workerObj,
                 created, recognized, ocr, rawText, modelCall, timer, race,
                 geminiResponse,
                 catchTerm>>

\* line 244 resolved
CatchTerminateResolve(r) ==
  /\ pc[r] = "catchTerminating"
  /\ workerObj' = [workerObj EXCEPT ![r] = "terminated"]
  /\ catchTerm' = [catchTerm EXCEPT ![r] = "ok"]
  /\ CatchTail(r, err[r], filePath[r], disk)
  /\ UNCHANGED <<now, upl, staged, reqFile, filePath, worker, created,
                 recognized, termCalls, misuse, ocr, rawText, modelCall, timer,
                 race, geminiResponse, cleanup>>

\* line 244 threw: logged and swallowed (lines 245-247)
CatchTerminateReject(r) ==
  /\ pc[r] = "catchTerminating"
  /\ catchTerm' = [catchTerm EXCEPT ![r] = "threw"]
  /\ CatchTail(r, err[r], filePath[r], disk)
  /\ UNCHANGED <<now, upl, staged, reqFile, filePath, worker, workerObj,
                 created, recognized, termCalls, misuse, ocr, rawText,
                 modelCall, timer, race, geminiResponse, cleanup>>

\* lines 188-238: the model call resolved first
ModelResolve(r) ==
  /\ pc[r] = "racing"
  /\ modelCall[r] = "pending"
  /\ modelCall' = [modelCall EXCEPT ![r] = "resolved"]
  /\ race' = [race EXCEPT ![r] = "model"]
  /\ \E g \in GeminiResponses :
       /\ geminiResponse' = [geminiResponse EXCEPT ![r] = g]
       /\ Respond(r, FinalResponse(StructuredData(g, rawText[r]), rawText[r]))
  /\ UNCHANGED <<now, disk, upl, staged, reqFile, filePath, worker, workerObj,
                 created, recognized, termCalls, misuse, ocr, rawText, err,
                 timer, cleanup,
                 catchUnlink,
                 catchTerm>>

\* lines 188-213: the model call rejected first
ModelReject(r) ==
  /\ pc[r] = "racing"
  /\ modelCall[r] = "pending"
  /\ modelCall' = [modelCall EXCEPT ![r] = "rejected"]
  /\ race' = [race EXCEPT ![r] = "model"]
  /\ Respond(r, AIUnavailableResponse(rawText[r]))
  /\ UNCHANGED <<now, disk, upl, staged, reqFile, filePath, worker, workerObj,
                 created, recognized, termCalls, misuse, ocr, rawText, err,
                 timer, geminiResponse, cleanup,
                 catchUnlink,
                 catchTerm>>

\* TimerFire with a fault: the timer's rejection is handled although the
\* race is already decided
TimerFireAfterRace(r) ==
  /\ pc[r] \in {"racing", "done"}
  /\ timer[r] = "armed"
  /\ timer' = [timer EXCEPT ![r] = "fired"]
  /\ race' = [race EXCEPT ![r] = "timer"]
  /\ Respond(r, AIUnavailableResponse(rawText[r]))
  /\ UNCHANGED <<now, disk, upl, staged, reqFile, filePath, worker, workerObj,
                 created, recognized, termCalls, misuse, ocr, rawText, err,
                 modelCall, geminiResponse, cleanup, catchUnlink, catchTerm>>

\* lines 190-213: the 30 s timer rejected first
TimerFire(r) ==
  /\ pc[r] = "racing"
  /\ timer[r] = "armed"
  /\ timer' = [timer EXCEPT ![r] = "fired"]
  /\ race' = [race EXCEPT ![r] = "timer"]
  /\ Respond(r, AIUnavailableResponse(rawText[r]))
  /\ UNCHANGED <<now, disk, upl, staged, reqFile, filePath, worker, workerObj,
                 created, recognized, termCalls, misuse, ocr, rawText, err,
                 modelCall, geminiResponse, cleanup,
                 catchUnlink,
                 catchTerm>>

\* the abandoned model call settles after the race was decided
LateModelSettle(r) ==
  /\ pc[r] = "done"
  /\ modelCall[r] = "pending"
  /\ \E outcome \in {"resolved", "rejected"} :
       modelCall' = [modelCall EXCEPT ![r] = outcome]
  /\ UNCHANGED <<now, disk, pc, upl, staged, reqFile, filePath, worker,
                 workerObj, created, recognized, termCalls, misuse, ocr,
                 rawText, err, timer, race, geminiResponse, resp, sent, cleanup,
                 catchUnlink,
                 catchTerm>>

\* the timer of line 191 is never cleared: it fires after the race was decided
LateTimerFire(r) ==
  /\ pc[r] = "done"
  /\ timer[r] = "armed"
  /\ timer' = [timer EXCEPT ![r] = "fired"]
  /\ UNCHANGED <<now, disk, pc, upl, staged, reqFile, filePath, worker,
                 workerObj, created, recognized, termCalls, misuse, ocr,
                 rawText, err, modelCall, race, geminiResponse, resp, sent, cleanup,
                 catchUnlink,
                 catchTerm>>

Next ==
  \/ Tick
  \/ \E r \in Requests :
       \/ UploadNone(r)
       \/ UploadFiltered(r)
       \/ UploadStage(r)
       \/ UploadLimit(r)
       \/ UploadDone(r)
       \/ CreateWorkerResolve(r)
       \/ CreateWorkerReject(r)
       \/ RecognizeResolve(r)
       \/ RecognizeReject(r)
       \/ TerminateResolve(r)
       \/ TerminateReject(r)
       \/ CatchTerminateResolve(r)
       \/ CatchTerminateReject(r)
       \/ ModelResolve(r)
       \/ ModelReject(r)
       \/ TimerFire(r)
       \/ LateModelSettle(r)
       \/ LateTimerFire(r)

Spec == Init /\ [][Next]_vars

\* ================================================================ claims
\* the response of r has been sent
Completed(r) == pc[r] = "done"

\* the handler of r has run to its end, with or without a response
Finished(r) == pc[r] \in {"done", "unhandled"}

\* the file that r's upload staged is still stored
StagedFilePresent(r) == reqFile[r] # Null /\ r \in disk[reqFile[r]]

\* the fields of the ocr_result sent to r
OcrResult(r) == resp[r].body.ocr_result.v

\* ---------------------------------------------------------------- C1
\* C1 as claimed: once the response of a request with an accepted upload has
\* been sent, the staged file is absent from storage, on every outcome.
C1_StagedFileAbsentOnEveryOutcome ==
  \A r \in Requests :
    (Completed(r) /\ upl[r] = "accepted") => ~StagedFilePresent(r)

\* C1 amended: once the response of a request with an accepted upload has
\* been sent, the staged file is absent from storage unless the failure
\* handler's own unlinkSync threw; a 200 response never leaves it behind.
C1_StagedFileAbsentUnlessUnlinkThrew ==
  \A r \in Requests :
    (Completed(r) /\ upl[r] = "accepted") =>
      /\ StagedFilePresent(r) => catchUnlink[r] = "threw"
      /\ resp[r].status = 200 => ~StagedFilePresent(r)

\* the early unlinkSync threw, the failure handler deleted the file, 500 sent
C1_Witness ==
  \E r \in Requests :
    /\ Completed(r)
    /\ upl[r] = "accepted"
    /\ cleanup[r] = "unlinkThrew"
    /\ catchUnlink[r] = "ok"
    /\ resp[r].status = 500
    /\ ~StagedFilePresent(r)

\* ---------------------------------------------------------------- C2
\* C2 as claimed: terminate is invoked exactly once on every created worker,
\* on every path, and the worker is never used after its release.
C2_TerminateExactlyOnce ==
  \A r \in Requests :
    /\ termCalls[r] <= 1
    /\ ~misuse[r]
    /\ (Finished(r) /\ workerObj[r] # "none") => termCalls[r] = 1

\* C2 amended: terminate is invoked at least once on every created worker
\* and never on a worker whose termination succeeded; it is invoked a second
\* time, by the failure handler, exactly when the early terminate threw, and
\* never a third time.
C2_TerminateOnceMoreOnlyAfterThrow ==
  \A r \in Requests :
    /\ termCalls[r] <= 2
    /\ ~misuse[r]
    /\ termCalls[r] = 2 <=> cleanup[r] = "termThrew"
    /\ (Finished(r) /\ workerObj[r] # "none") => termCalls[r] >= 1
    /\ worker[r] = "null" /\ workerObj[r] = "terminated" => termCalls[r] = 1

\* the early terminate threw and the failure handler terminated the worker
C2_Witness ==
  \E r \in Requests :
    /\ Completed(r)
    /\ cleanup[r] = "termThrew"
    /\ termCalls[r] = 2
    /\ workerObj[r] = "terminated"

\* ---------------------------------------------------------------- C3
\* the race of r was lost by the model call: it rejected, or the timer fired
ModelCallFailed(r) ==
  \/ race[r] = "timer"
  \/ race[r] = "model" /\ modelCall[r] = "rejected"

\* C3: text of trimmed length >= 10 whose model call rejects or loses the
\* race to the timer is answered 200 with corrected_text equal to the raw
\* text, no topics, the AI-unavailable note and a top-level warning.
C3_AIUnavailableFallback ==
  \A r \in Requests :
    (Completed(r) /\ Len(rawText[r]) >= ShortTextLimit /\ ModelCallFailed(r)) =>
      /\ resp[r].status = 200
      /\ resp[r].body.raw_text = rawText[r]
      /\ OcrResult(r).corrected_text = JStr(rawText[r])
      /\ OcrResult(r).yks_topics = JArr(<<>>)
      /\ OcrResult(r).note = JStr(NoteAIUnavailable)
      /\ "warning" \in DOMAIN resp[r].body

\* the timer won the race on a text of at least 10 characters
C3_Witness ==
  \E r \in Requests :
    /\ Completed(r)
    /\ race[r] = "timer"
    /\ Len(rawText[r]) >= ShortTextLimit
    /\ resp[r].status = 200

\* ---------------------------------------------------------------- C4
\* the model call of r won the race and resolved
ModelCallReturned(r) == race[r] = "model" /\ modelCall[r] = "resolved"

\* the resolved payload has no candidate text or text that is not JSON
Unparsable(g) == Len(g.candidates) = 0 \/ ~JSONParse(g.candidates[1]).ok

\* C4 as claimed: a model payload that is malformed JSON, or whose candidate
\* text cannot be extracted, is answered 200 with corrected_text equal to the
\* raw text and with a top-level warning.
C4_ParseFailureHasWarning ==
  \A r \in Requests :
    (Completed(r) /\ ModelCallReturned(r) /\ Unparsable(geminiResponse[r])) =>
      /\ resp[r].status = 200
      /\ OcrResult(r).corrected_text = JStr(rawText[r])
      /\ "warning" \in DOMAIN resp[r].body

\* ---------------------------------------------------------------- C5
\* C5: recognition that returned text which is empty after trimming is
\* answered 422 with success false, and no 200 response carries an empty
\* (or untrimmed) raw_text or an empty corrected_text copied from it.
C5_EmptyTextIs422 ==
  \A r \in Requests :
    Completed(r) =>
      /\ (ocr[r] = "text" /\ rawText[r] = <<>>) =>
           /\ resp[r].status = 422
           /\ resp[r].body.success = FALSE
      /\ resp[r].status = 200 =>
           /\ ocr[r] = "text"
           /\ resp[r].body.raw_text = rawText[r]
           /\ rawText[r] # <<>>
           /\ Trim(rawText[r]) = rawText[r]
           /\ \A note \in {NoteTooShort, NoteAIUnavailable, NoteParseFailed} :
                resp[r].body.ocr_result # Fallback(<<>>, note)

\* whitespace-only text was recognized and 422 was sent
C5_Witness ==
  \E r \in Requests :
    /\ Completed(r)
    /\ ocr[r] = "text"
    /\ rawText[r] = <<>>
    /\ resp[r].status = 422

\* ---------------------------------------------------------------- C6
\* recognition of r returned text of 1 to 9 characters after trimming
ShortTextRecognized(r) ==
  ocr[r] = "text" /\ Len(rawText[r]) >= 1 /\ Len(rawText[r]) < ShortTextLimit

\* C6 as claimed: text of 1 to 9 characters never reaches the model call and
\* is answered with the short-text fallback.
C6_ShortTextAlwaysFallback ==
  \A r \in Requests :
    ShortTextRecognized(r) =>
      /\ modelCall[r] = "none"
      /\ Completed(r) => resp[r] = ShortTextResponse(rawText[r])

\* C6 amended: text of 1 to 9 characters never reaches the model call; it is
\* answered with the short-text fallback when the early cleanup went
\* through, and with the failure handler's error response when the early
\* terminate or the early unlinkSync threw.
C6_ShortTextFallbackAfterCleanup ==
  \A r \in Requests :
    ShortTextRecognized(r) =>
      /\ modelCall[r] = "none" /\ timer[r] = "none"
      /\ Completed(r) =>
           IF cleanup[r] = "released"
             THEN /\ resp[r].status = 200
                  /\ resp[r].body.raw_text = rawText[r]
                  /\ OcrResult(r).corrected_text = JStr(rawText[r])
                  /\ OcrResult(r).yks_topics = JArr(<<>>)
                  /\ OcrResult(r).note = JStr(NoteTooShort)
             ELSE /\ cleanup[r] \in {"termThrew", "unlinkThrew"}
                  /\ resp[r].status \in {422, 500}

\* a text of 9 characters was answered with the short-text fallback
C6_Witness ==
  \E r \in Requests :
    /\ Completed(r)
    /\ ocr[r] = "text"
    /\ Len(rawText[r]) = ShortTextLimit - 1
    /\ resp[r] = ShortTextResponse(rawText[r])

\* ---------------------------------------------------------------- C7
\* C7 as claimed: an upload with a MIME type outside the allow-set, or of
\* more than 10 MiB, is rejected with 400 without any write to the uploads
\* directory having been made for it, without a worker and without a model
\* call.
C7_RejectedBeforeStagingWrite ==
  \A r \in Requests :
    upl[r] \in {"badmime", "oversize"} =>
      /\ ~staged[r]
      /\ created[r] = 0
      /\ modelCall[r] = "none"
      /\ Completed(r) => resp[r].status = 400

\* ---------------------------------------------------------------- C8
\* createWorker or recognize of r threw
EngineFailed(r) ==
  \/ ocr[r] = "threw"
  \/ created[r] = 1 /\ workerObj[r] = "none" /\ Finished(r)

\* C8 as claimed: a failed request follows the status table: a missing
\* staged file and any engine failure, whatever its message, give 500, and
\* 422 is sent only when recognition returned text that is empty after
\* trimming.
C8_StatusTable ==
  \A r \in Requests :
    Completed(r) =>
      /\ err[r] = Err(MsgFileNotFound) => resp[r].status = 500
      /\ EngineFailed(r) => resp[r].status = 500
      /\ resp[r].status = 422 => (ocr[r] = "text" /\ rawText[r] = <<>>)

\* ---------------------------------------------------------------- C9
\* C9 as claimed: every 200 response carries ocr_result, raw_text and
\* success: true.
C9_SuccessShape ==
  \A r \in Requests :
    (Completed(r) /\ resp[r].status = 200) =>
      /\ {"ocr_result", "raw_text", "success"} \subseteq DOMAIN resp[r].body
      /\ resp[r].body.success = TRUE

\* ---------------------------------------------------------------- C10
\* a JS value with the shape of a StructuredResult
IsStructuredResult(x) ==
  /\ x.type = "object"
  /\ {"corrected_text", "yks_topics"} \subseteq DOMAIN x.v
  /\ x.v.corrected_text.type = "string"
  /\ x.v.yks_topics.type = "array"

\* C10 as claimed: whatever payload the model returns in time, the
\* ocr_result of the 200 response has a string corrected_text and an array
\* yks_topics, and no refinement failure reaches the failure handler.
C10_ValidStructuredResult ==
  \A r \in Requests :
    /\ race[r] # "none" => err[r] = NoErr
    /\ (Completed(r) /\ ModelCallReturned(r)) =>
         /\ resp[r].status = 200
         /\ IsStructuredResult(resp[r].body.ocr_result)

\* ---------------------------------------------------------------- C11
\* the accepted upload of r is being processed
InFlight(r) ==
  upl[r] = "accepted" /\ pc[r] \notin {"idle", "done", "unhandled"}

\* C11 as claimed: two accepted uploads that are processed at the same time
\* never have the same staging path, also when they arrive in the same
\* millisecond with the same field name and extension.
C11_DistinctStagingPaths ==
  \A r1, r2 \in Requests :
    (r1 # r2 /\ InFlight(r1) /\ InFlight(r2)) => reqFile[r1] # reqFile[r2]

\* ---------------------------------------------------------------- C12
\* recognition of r returned text that is not empty after trimming
TextRecognized(r) == ocr[r] = "text" /\ rawText[r] # <<>>

\* r holds neither a live worker nor a staged file
HoldsNothing(r) ==
  /\ workerObj[r] = "terminated"
  /\ worker[r] = "null"
  /\ filePath[r] = Null
  /\ ~StagedFilePresent(r)

\* C12 as claimed: after recognition returned non-empty text, the worker is
\* terminated and the staged file deleted before the model call is issued
\* and before any response is sent.
C12_ReleasedBeforeCallAndAnyResponse ==
  \A r \in Requests :
    (TextRecognized(r) /\ (modelCall[r] # "none" \/ Completed(r))) =>
      HoldsNothing(r)

\* C12 amended: after recognition returned non-empty text, the worker is
\* terminated and the staged file deleted before the model call is issued
\* and before any 200 response is sent, so nothing is held while the request
\* waits on the model call or the timer; the error response that follows a
\* throwing early cleanup is not covered.
C12_ReleasedBeforeCallAnd200 ==
  \A r \in Requests :
    /\ (modelCall[r] # "none" \/ timer[r] # "none" \/ pc[r] = "racing"
          \/ (Completed(r) /\ resp[r].status = 200)) =>
         (TextRecognized(r) /\ cleanup[r] = "released" /\ HoldsNothing(r))
    /\ pc[r] = "racing" => sent[r] = 0

\* the request waits on the model call and the timer, holding nothing
C12_Witness ==
  \E r \in Requests :
    /\ pc[r] = "racing"
    /\ modelCall[r] = "pending"
    /\ timer[r] = "armed"
    /\ HoldsNothing(r)

\* ---------------------------------------------------------------- C13
\* the catch block of r was entered
FailureHandled(r) == err[r] # NoErr

\* C13 as claimed: in the failure handler a held worker's termination is
\* attempted, then, whatever came of it, the deletion of a staged file that
\* still exists is attempted, then, whatever came of that, the error
\* response is sent, and never before both attempts.
C13_CleanupThenErrorResponse ==
  \A r \in Requests :
    FailureHandled(r) =>
      /\ pc[r] \in {"catchTerminating", "done", "unhandled"}
      /\ pc[r] = "catchTerminating" => (sent[r] = 0 /\ catchUnlink[r] = "none")
      /\ Finished(r) =>
           /\ worker[r] = "handle" => catchTerm[r] \in {"ok", "threw"}
           /\ StagedFilePresent(r) => catchUnlink[r] = "threw"
           /\ Completed(r)
           /\ sent[r] = 1
           /\ resp[r].status \in {422, 500}

\* ---------------------------------------------------------------- C14
\* the response and the decision of the race of r are left as they are
Settled(r) ==
  /\ pc'[r] = pc[r]
  /\ resp'[r] = resp[r]
  /\ sent'[r] = sent[r]
  /\ race'[r] = race[r]
  /\ geminiResponse'[r] = geminiResponse[r]

\* what the race of r decided, in every state
RaceOutcome ==
  \A r \in Requests :
    /\ pc[r] = "racing" => (race[r] = "none" /\ sent[r] = 0)
    /\ race[r] # "none" => (Completed(r) /\ sent[r] = 1)
    /\ race[r] = "timer" =>
         (timer[r] = "fired" /\ resp[r] = AIUnavailableResponse(rawText[r]))
    /\ race[r] = "model" =>
         /\ modelCall[r] \in {"resolved", "rejected"}
         /\ modelCall[r] = "rejected" =>
              resp[r] = AIUnavailableResponse(rawText[r])
         /\ modelCall[r] = "resolved" =>
              resp[r] = FinalResponse(StructuredData(geminiResponse[r], rawText[r]),
                                      rawText[r])

\* C14: the first of the model call and the timer to settle decides the
\* outcome alone: once the race is decided, the later firing of the timer
\* and the later settling of the model call, which is not cancelled, change
\* neither the response nor the decision, and one response is sent.
C14_FirstToSettleDecides ==
  /\ []RaceOutcome
  /\ [][\A r \in Requests : race[r] # "none" => Settled(r)]_vars

\* the timer won, the abandoned model call resolved later, nothing changed
C14_Witness ==
  \E r \in Requests :
    /\ race[r] = "timer"
    /\ modelCall[r] = "resolved"
    /\ sent[r] = 1
    /\ resp[r] = AIUnavailableResponse(rawText[r])

\* ---------------------------------------------------------------- C15
\* multer rejected the upload of r, or r carried no file
ClientFault(r) == upl[r] \in {"nofile", "badmime", "oversize"}

\* C15: a request with a rejected or missing file never creates a worker and
\* never issues a model call and is answered 400; a request whose recognized
\* text is empty after trimming never issues a model call.
C15_FaultsStopThePipeline ==
  \A r \in Requests :
    /\ ClientFault(r) =>
         /\ created[r] = 0 /\ workerObj[r] = "none" /\ recognized[r] = 0
         /\ modelCall[r] = "none" /\ timer[r] = "none"
         /\ pc[r] \in {"uploading", "done"}
         /\ Completed(r) => resp[r].status = 400
    /\ (ocr[r] = "text" /\ rawText[r] = <<>>) =>
         /\ modelCall[r] = "none" /\ timer[r] = "none"
         /\ pc[r] \in {"catchTerminating", "done"}
         /\ cleanup[r] = "none"

\* one request was rejected for its size, another for its empty text
C15_Witness ==
  \E r1, r2 \in Requests :
    /\ Completed(r1) /\ upl[r1] = "oversize" /\ resp[r1].status = 400
    /\ Completed(r2) /\ ocr[r2] = "text" /\ rawText[r2] = <<>>
    /\ resp[r2].status = 422
    /\ modelCall[r2] = "none"

\* ---------------------------------------------------------------- C16
\* the stage of the OCR state machine a handler position stands for
OcrStage(r) ==
  CASE pc[r] \in {"idle", "uploading"} -> "Idle"
    [] pc[r] = "creating" -> "WorkerAcquiring"
    [] pc[r] = "recognizing" -> "Recognizing"
    [] pc[r] = "terminating" -> "Success"
    [] pc[r] = "catchTerminating" -> "Failed"
    [] OTHER -> "Released"

\* the steps of Idle -> WorkerAcquiring -> Recognizing -> (Success | Failed)
\* -> Released; a stage may be left for Released when the stage fails with
\* nothing to terminate, and Success for Failed when the early terminate
\* throws
OcrStageSteps ==
  { <<"Idle", "WorkerAcquiring">>, <<"Idle", "Released">>,
    <<"WorkerAcquiring", "Recognizing">>, <<"WorkerAcquiring", "Released">>,
    <<"Recognizing", "Success">>, <<"Recognizing", "Failed">>,
    <<"Success", "Released">>, <<"Success", "Failed">>,
    <<"Failed", "Released">> }

\* no retry: one worker, one recognition, failure and empty text are final
SingleAttempt(r) ==
  /\ created[r] <= 1
  /\ recognized[r] <= 1
  /\ (ocr[r] = "threw" \/ (ocr[r] = "text" /\ rawText[r] = <<>>)
        \/ (created[r] = 1 /\ workerObj[r] = "none" /\ Finished(r))) =>
       /\ OcrStage(r) \in {"Failed", "Released"}
       /\ cleanup[r] = "none"
       /\ modelCall[r] = "none"
       /\ Completed(r) => resp[r].status # 200

\* C16 as claimed: the OCR stage follows the state machine without retry,
\* and every request whose worker was acquired has released it (the worker
\* is terminated) by the time its response is sent.
C16_ReleasedBeforeCompletion ==
  \A r \in Requests :
    /\ SingleAttempt(r)
    /\ (Completed(r) /\ workerObj[r] # "none") => workerObj[r] = "terminated"

\* C16 amended: the OCR stage follows the state machine without retry (one
\* worker, one recognition, failure and empty text final), and before the
\* handler ends terminate was attempted on every acquired worker; the worker
\* is terminated by then unless the failure handler's terminate threw.
C16_StateMachineNoRetry ==
  /\ [](\A r \in Requests :
          /\ SingleAttempt(r)
          /\ (Finished(r) /\ workerObj[r] # "none") =>
               /\ termCalls[r] >= 1
               /\ workerObj[r] = "running" => catchTerm[r] = "threw")
  /\ [][\A r \in Requests :
          \/ pc'[r] = pc[r]
          \/ pc[r] = "idle" /\ pc'[r] = "uploading"
          \/ pc[r] = "racing" /\ pc'[r] = "done"
          \/ <<OcrStage(r), OcrStage(r)'>> \in OcrStageSteps]_vars

\* recognition threw, the failure handler terminated the worker, then answered
C16_Witness ==
  \E r \in Requests :
    /\ Completed(r)
    /\ ocr[r] = "threw"
    /\ created[r] = 1 /\ recognized[r] = 1
    /\ catchTerm[r] = "ok"
    /\ workerObj[r] = "terminated"

\* ---------------------------------------------------------------- C17
\* the early cleanup of lines 136-139 failed after a non-empty recognition
EarlyCleanupFailed(r) ==
  /\ TextRecognized(r)
  /\ cleanup[r] \in {"termThrew", "unlinkThrew"}

\* C17: when recognition returned non-empty text and the early cleanup
\* (terminate, then unlink) fails, the request is answered 500, the model
\* call is never issued, and the failure handler attempts to release what is
\* still held: terminate again on the held worker, unlink on a file that is
\* still there.
C17_EarlyCleanupFailureIs500 ==
  \A r \in Requests :
    (EarlyCleanupFailed(r) /\ Finished(r)) =>
      /\ Completed(r)
      /\ resp[r].status = 500
      /\ modelCall[r] = "none" /\ timer[r] = "none"
      /\ cleanup[r] = "termThrew" => termCalls[r] = 2
      /\ StagedFilePresent(r) => catchUnlink[r] = "threw"

\* ---------------------------------------------------------------- C18
\* C18: every request whose handler has run to its end was sent exactly one
\* response, on every success and failure path; no request is sent two.
C18_ExactlyOneResponse ==
  \A r \in Requests :
    /\ sent[r] <= 1
    /\ Finished(r) => sent[r] = 1

\* ---------------------------------------------------------------- C19
\* r's handler still relies on the file its upload staged: it has not yet
\* deleted it (line 138) nor run its failure handler's unlink (line 251)
NeedsStagedFile(r) ==
  /\ upl[r] = "accepted"
  /\ pc[r] \in {"uploading", "creating", "recognizing", "terminating",
                "catchTerminating"}

\* C19: a staged file is deleted only by the request that staged it: while a
\* request still relies on its staged file the file is there, and no request
\* fails because its file was gone (removed by another request's cleanup).
C19_StagedFileIsolation ==
  \A r \in Requests :
    /\ NeedsStagedFile(r) => StagedFilePresent(r)
    /\ err[r] \notin {Err(MsgFileNotFound), Err(MsgUnlinkMissing)}
====
